---- MODULE Spec2Model ----
(***************************************************************************)
(* Job tracking of the video-processing server: the Job Registry           *)
(* (WebSocketManager.videos), the event fabric (socket.io rooms and the    *)
(* global broadcast), the upload handler with its two execution modes      *)
(* (local pipeline processVideo, GitHub queue), and the browser client's   *)
(* result poller (startPollingResults).                                    *)
(*                                                                         *)
(* Node runs every handler and every continuation of an await to           *)
(* completion, so one action is one such run.  Progress values are kept in *)
(* tenths of a percent (82.5 % is 825) so that the arithmetic of the       *)
(* progress callbacks stays exact.                                         *)
(***************************************************************************)
EXTENDS Integers, Sequences, FiniteSets, TLC

\* ---------------------------------------------------------------- bounds
MaxReq == 2          \* upload requests made during a run
MaxClock == 2        \* distinct values Date.now() takes during a run
MaxCallbacks == 1    \* progress events ffmpeg reports during one transform
NumSockets == 1      \* observer sockets
MaxRooms == 1        \* video rooms one observer joins
MaxSubReq == 1       \* upload requests made while observers are watched
MaxInFlight == 2     \* poll requests that may overlap
MaxCalls == 4        \* calls made on the Registry from outside the server
MaxOutside == 1      \* such calls made while an upload is handled

\* ------------------------------------------------------- program constants
maxAttempts == 80    \* startPollingResults: attempt ceiling

Reqs == 1..MaxReq
Ids == 1..MaxClock
Sockets == 1..NumSockets
SubReqs == 1..MaxSubReq
\* the upload made from the page whose poller is followed
PollReqs == {1}

\* stage-local percentages ffmpeg may report: the percentage is an estimate
\* made from the probed duration and may exceed 100
Pcts == {0, 50, 120}
\* messages a failing delegated operation may carry ("" is an empty message)
Msgs == {"", "codec error"}
\* values of PROCESSING_MODE that the upload handler tells apart
Modes == {"local", "github"}
\* the value of a parameter that was not passed (error = null)
Null == "<null>"
\* the value of a property or Map entry that is absent
Undefined == "<undefined>"

Pct(n) == n * 10

VARIABLES
  clock,        \* Date.now()
  mode,         \* process.env.PROCESSING_MODE, lower-cased
  videos,       \* wsManager.videos: id -> record
  events,       \* what the last handler that emitted has emitted, in order
  prevPub,      \* id -> record of the last update event emitted before that
  nmut,         \* id -> events emitted for the id on the global topic so far
  connected,    \* observer sockets that are connected
  rooms,        \* socket -> ids of the video rooms it joined
  recv,         \* socket -> id -> what it was sent about the id since it
                \*   joined the room of that existing job
  browserOn,    \* the page of public/app.js is loaded and its socket connected
  inbox,        \* messages on their way to the browser, in order
  pc,           \* request -> where its handler / pipeline is suspended
  reqId,        \* request -> videoInfo.id
  lastPct,      \* request -> last stage-local percentage ffmpeg reported
  processedPath,\* request -> what its transform resolved with
  ncb,          \* request -> progress events reported so far
  uploadedCount,\* request -> uploadFiles: uploadedCount
  resp,         \* request -> HTTP response of POST /upload
  caught,       \* request -> message of the error its catch block caught
  repoUploads,  \* requests whose input file is committed to the repository
  repoResults,  \* id -> results file present in the repository
  cvideos,      \* the browser's videos map
  pollId,       \* videoId polled by startPollingResults (0: not started)
  attempts,     \* startPollingResults: attempts
  intervalOn,   \* the poll interval has not been cleared
  inflight,     \* poll requests under way, counted by how far they got
  reconciled,   \* times the poller marked the job completed
  timeouts,     \* times the poller surfaced a timeout
  applied,      \* records the last handler that emitted has stored, in order
  call,         \* the last call made on the Registry from outside the server
  ret,          \* what the last getVideoStatus returned
  ncalls        \* calls made on the Registry from outside the server

regVars == <<videos, events, prevPub, nmut, recv, inbox, applied>>
sockVars == <<connected, rooms>>
reqVars == <<pc, reqId, lastPct, processedPath, ncb, uploadedCount, resp, caught>>
repoVars == <<repoUploads, repoResults>>
pollVars == <<pollId, attempts, intervalOn, inflight, reconciled, timeouts>>
clientVars == <<browserOn, cvideos>>
apiVars == <<call, ret, ncalls>>
vars == <<clock, mode, regVars, sockVars, reqVars, repoVars, pollVars, clientVars,
         apiVars>>

\* ------------------------------------------------------------ JS objects
\* { ...f, ...g }: the fields of g override and extend those of f
Merge(f, g) ==
  [k \in (DOMAIN f) \cup (DOMAIN g) |-> IF k \in DOMAIN g THEN g[k] ELSE f[k]]

\* Map.set
Put(m, k, v) == [x \in (DOMAIN m) \cup {k} |-> IF x = k THEN v ELSE m[x]]

Has(rec, field) == field \in DOMAIN rec

\* JS truthiness of the error argument: null, undefined and "" are falsy
Truthy(e) == e # Null /\ e # ""

FileName(r) == r          \* req.file.originalname / filename of request r
FileSize(r) == 1000 * r   \* req.file.size

\* --------------------------------------------------------- event fabric
Ev(ev, chan, id, rec) == [ev |-> ev, chan |-> chan, id |-> id, rec |-> rec]

\* what an observer in the room of videoId receives of the messages out:
\* io.emit reaches every socket, io.to(room).emit the members of the room
Deliver(videoId, out) ==
  SelectSeq(out, LAMBDA e: e.id = videoId /\ e.chan \in {"global", "room"})

\* what the browser, which joins no room, receives of the messages out
DeliverGlobal(out) == SelectSeq(out, LAMBDA e: e.chan = "global")

OnGlobal(videoId, out) ==
  SelectSeq(out, LAMBDA e: e.id = videoId /\ e.chan = "global")

Updates(videoId, out) ==
  SelectSeq(out, LAMBDA e: /\ e.id = videoId /\ e.chan = "global"
                           /\ e.ev = "video-status-update")

Last(seq) == seq[Len(seq)]

\* the state of the registry together with what a handler emitted so far
World == [videos |-> videos, out |-> <<>>, muts |-> <<>>]

\* ------------------------------------------------- WebSocketManager (Registry)
notifyNewUpload(w, videoInfo) ==
  LET rec == [id |-> videoInfo.id,
              originalName |-> videoInfo.originalName,
              status |-> videoInfo.status,
              progress |-> videoInfo.progress,
              timestamp |-> videoInfo.timestamp,
              size |-> videoInfo.size]
  IN [videos |-> Put(w.videos, videoInfo.id, rec),
      out |-> Append(w.out, Ev("new-video-upload", "global", videoInfo.id, rec)),
      muts |-> Append(w.muts, rec)]

\* a status update that notifies the global topic only
updateVideoStatusGlobalOnly(w, videoId, status, progress, error) ==
  IF videoId \notin DOMAIN w.videos
  THEN w
  ELSE LET base == Merge(w.videos[videoId],
                         [status |-> status, progress |-> progress,
                          lastUpdate |-> clock])
           updatedVideo == IF Truthy(error)
                           THEN Merge(base, [error |-> error])
                           ELSE base
       IN [videos |-> Put(w.videos, videoId, updatedVideo),
           out |-> Append(w.out,
                     Ev("video-status-update", "global", videoId, updatedVideo)),
           muts |-> Append(w.muts, updatedVideo)]

\* a status update that emits the record it read instead of the one it stored
updateVideoStatusEmitsStale(w, videoId, status, progress, error) ==
  IF videoId \notin DOMAIN w.videos
  THEN w
  ELSE LET video == w.videos[videoId]
           base == Merge(video, [status |-> status, progress |-> progress,
                                 lastUpdate |-> clock])
           updatedVideo == IF Truthy(error)
                           THEN Merge(base, [error |-> error])
                           ELSE base
       IN [videos |-> Put(w.videos, videoId, updatedVideo),
           out |-> w.out \o
                   <<Ev("video-status-update", "room", videoId, video),
                     Ev("video-status-update", "global", videoId, video)>>,
           muts |-> Append(w.muts, updatedVideo)]

\* a status update that starts a record for an id it does not find
updateVideoStatusUpsert(w, videoId, status, progress, error) ==
  LET video == IF videoId \in DOMAIN w.videos
               THEN w.videos[videoId] ELSE [id |-> videoId]
      base == Merge(video, [status |-> status, progress |-> progress,
                            lastUpdate |-> clock])
      updatedVideo == IF Truthy(error)
                      THEN Merge(base, [error |-> error])
                      ELSE base
  IN [videos |-> Put(w.videos, videoId, updatedVideo),
      out |-> w.out \o
              <<Ev("video-status-update", "room", videoId, updatedVideo),
                Ev("video-status-update", "global", videoId, updatedVideo)>>,
      muts |-> Append(w.muts, updatedVideo)]

\* a status update that stores its own fields only, without those of the
\* record it found
updateVideoStatusDropsFields(w, videoId, status, progress, error) ==
  IF videoId \notin DOMAIN w.videos
  THEN w
  ELSE LET base == [id |-> videoId, status |-> status, progress |-> progress,
                    lastUpdate |-> clock]
           updatedVideo == IF Truthy(error)
                           THEN Merge(base, [error |-> error])
                           ELSE base
       IN [videos |-> Put(w.videos, videoId, updatedVideo),
           out |-> w.out \o
                   <<Ev("video-status-update", "room", videoId, updatedVideo),
                     Ev("video-status-update", "global", videoId, updatedVideo)>>,
           muts |-> Append(w.muts, updatedVideo)]

updateVideoStatus(w, videoId, status, progress, error) ==
  IF videoId \notin DOMAIN w.videos
  THEN w
  ELSE LET base == Merge(w.videos[videoId],
                         [status |-> status, progress |-> progress,
                          lastUpdate |-> clock])
           updatedVideo == IF Truthy(error)
                           THEN Merge(base, [error |-> error])
                           ELSE base
       IN [videos |-> Put(w.videos, videoId, updatedVideo),
           out |-> w.out \o
                   <<Ev("video-status-update", "room", videoId, updatedVideo),
                     Ev("video-status-update", "global", videoId, updatedVideo)>>,
           muts |-> Append(w.muts, updatedVideo)]

\* a results update that leaves the progress as it was
updateVideoResultsKeepsProgress(w, videoId, results) ==
  IF videoId \notin DOMAIN w.videos
  THEN w
  ELSE LET updatedVideo ==
             Merge(w.videos[videoId],
                   [processedVideoUrl |-> results.videoUrl,
                    thumbnailUrl |-> results.thumbnailUrl,
                    videoParts |-> IF Has(results, "videoParts")
                                   THEN results.videoParts ELSE <<>>,
                    status |-> "completed",
                    completedAt |-> clock])
       IN [videos |-> Put(w.videos, videoId, updatedVideo),
           out |-> w.out \o
                   <<Ev("video-completed", "room", videoId, updatedVideo),
                     Ev("video-completed", "global", videoId, updatedVideo)>>,
           muts |-> Append(w.muts, updatedVideo)]

\* a results update that stamps every record of the registry
updateVideoResultsStampsAll(w, videoId, results) ==
  IF videoId \notin DOMAIN w.videos
  THEN w
  ELSE LET updatedVideo ==
             Merge(w.videos[videoId],
                   [processedVideoUrl |-> results.videoUrl,
                    thumbnailUrl |-> results.thumbnailUrl,
                    videoParts |-> IF Has(results, "videoParts")
                                   THEN results.videoParts ELSE <<>>,
                    status |-> "completed",
                    progress |-> Pct(100),
                    completedAt |-> clock])
       IN [videos |-> [id \in DOMAIN w.videos |->
                         IF id = videoId THEN updatedVideo
                         ELSE Merge(w.videos[id], [lastUpdate |-> clock])],
           out |-> w.out \o
                   <<Ev("video-completed", "room", videoId, updatedVideo),
                     Ev("video-completed", "global", videoId, updatedVideo)>>,
           muts |-> Append(w.muts, updatedVideo)]

updateVideoResults(w, videoId, results) ==
  IF videoId \notin DOMAIN w.videos
  THEN w
  ELSE LET updatedVideo ==
             Merge(w.videos[videoId],
                   [processedVideoUrl |-> results.videoUrl,
                    thumbnailUrl |-> results.thumbnailUrl,
                    videoParts |-> IF Has(results, "videoParts")
                                   THEN results.videoParts ELSE <<>>,
                    status |-> "completed",
                    progress |-> Pct(100),
                    completedAt |-> clock])
       IN [videos |-> Put(w.videos, videoId, updatedVideo),
           out |-> w.out \o
                   <<Ev("video-completed", "room", videoId, updatedVideo),
                     Ev("video-completed", "global", videoId, updatedVideo)>>,
           muts |-> Append(w.muts, updatedVideo)]

getVideosByStatus(vs, status) == {id \in DOMAIN vs : vs[id].status = status}

\* Map.delete
Remove(m, k) == [x \in (DOMAIN m) \ {k} |-> m[x]]

\* a removal that tells nobody
removeVideoSilent(w, videoId) ==
  [w EXCEPT !.videos = Remove(@, videoId)]

removeVideo(w, videoId) ==
  IF videoId \notin DOMAIN w.videos
  THEN w
  ELSE [w EXCEPT !.videos = Remove(@, videoId),
                 !.out = Append(@, Ev("video-removed", "global", videoId,
                                      [id |-> videoId]))]

clearCompletedVideos(w) ==
  LET completedVideos == getVideosByStatus(w.videos, "completed")
  IN [w EXCEPT !.videos = [id \in (DOMAIN @) \ completedVideos |-> @[id]],
               !.out = Append(@, Ev("videos-cleared", "global", 0,
                                    [count |-> Cardinality(completedVideos)]))]

\* stats whose active count leaves the uploaded records out
getSystemStatsActiveProcessing(vs) ==
  [total |-> Cardinality(DOMAIN vs),
   uploaded |-> Cardinality(getVideosByStatus(vs, "uploaded")),
   processing |-> Cardinality(getVideosByStatus(vs, "processing")),
   completed |-> Cardinality(getVideosByStatus(vs, "completed")),
   error |-> Cardinality(getVideosByStatus(vs, "error")),
   active |-> Cardinality(getVideosByStatus(vs, "processing"))]

getSystemStats(vs) ==
  [total |-> Cardinality(DOMAIN vs),
   uploaded |-> Cardinality(getVideosByStatus(vs, "uploaded")),
   processing |-> Cardinality(getVideosByStatus(vs, "processing")),
   completed |-> Cardinality(getVideosByStatus(vs, "completed")),
   error |-> Cardinality(getVideosByStatus(vs, "error")),
   active |-> Cardinality(getVideosByStatus(vs, "uploaded"))
                + Cardinality(getVideosByStatus(vs, "processing"))]

\* The callback of the interval that startStatsBroadcast sets.  Nothing calls
\* startStatsBroadcast, neither the constructor nor the server, so no
\* interval runs it and it is no step of the server.
broadcastSystemStats(w) ==
  [w EXCEPT !.out = Append(@, Ev("system-stats", "global", 0,
                                 getSystemStats(w.videos)))]

\* the handler is over: the registry and the emitted messages take effect
Commit(w) ==
  /\ videos' = w.videos
  /\ events' = w.out
  /\ prevPub' = [id \in (DOMAIN prevPub) \cup
                          {i \in Ids : Updates(i, events) # <<>>} |->
                   IF Updates(id, events) # <<>>
                   THEN Last(Updates(id, events)).rec
                   ELSE prevPub[id]]
  /\ nmut' = [id \in Ids |-> nmut[id] + Len(OnGlobal(id, w.out))]
  /\ recv' = [s \in Sockets |->
               [id \in DOMAIN recv[s] |->
                  IF Deliver(id, w.out) = <<>>
                  THEN recv[s][id]
                  ELSE [recv[s][id] EXCEPT
                          !.last = Last(Deliver(id, w.out)),
                          !.globals = @ + Len(OnGlobal(id, w.out))]]]
  /\ inbox' = IF browserOn THEN inbox \o DeliverGlobal(w.out) ELSE inbox
  /\ applied' = w.muts

\* no call was made yet
NoCall == [op |-> "none"]
\* Map.get of an id that is not in the Map (undefined)
NoRecord == [none |-> TRUE]

\* ------------------------------------------------------------------ Init
Init ==
  /\ clock = 1
  /\ mode \in Modes
  /\ videos = <<>>
  /\ events = <<>>
  /\ connected = {}
  /\ prevPub = <<>>
  /\ nmut = [id \in Ids |-> 0]
  /\ rooms = [s \in Sockets |-> {}]
  /\ recv = [s \in Sockets |-> <<>>]
  /\ browserOn = FALSE
  /\ inbox = <<>>
  /\ pc = [r \in Reqs |-> "idle"]
  /\ reqId = [r \in Reqs |-> 0]
  /\ lastPct = [r \in Reqs |-> 0]
  /\ processedPath = [r \in Reqs |-> "none"]
  /\ ncb = [r \in Reqs |-> 0]
  /\ uploadedCount = [r \in Reqs |-> 0]
  /\ resp = [r \in Reqs |-> "none"]
  /\ caught = [r \in Reqs |-> Null]
  /\ repoUploads = {}
  /\ repoResults = <<>>
  /\ cvideos = <<>>
  /\ pollId = 0
  /\ attempts = 0
  /\ intervalOn = FALSE
  /\ inflight = [pending |-> 0, ok |-> 0, notfound |-> 0, neterr |-> 0]
  /\ reconciled = 0
  /\ timeouts = 0
  /\ applied = <<>>
  /\ call = NoCall
  /\ ret = NoRecord
  /\ ncalls = 0

\* --------------------------------------------------------------- the clock
Tick ==
  /\ clock < MaxClock
  /\ clock' = clock + 1
  /\ UNCHANGED <<apiVars, mode, regVars, sockVars, reqVars, repoVars, pollVars, clientVars>>

\* process.env.PROCESSING_MODE is assigned another value while the server
\* runs; the upload handler reads it anew on every request
SetMode(m) ==
  /\ m # mode
  /\ mode' = m
  /\ UNCHANGED <<apiVars, clock, regVars, sockVars, reqVars, repoVars, pollVars,
                 clientVars>>

\* ------------------------------------------------------------- observers
\* io.on('connection') for an observer: it is sent the whole registry
Connect(s) ==
  /\ s \notin connected
  /\ connected' = connected \cup {s}
  /\ UNCHANGED <<apiVars, clock, mode, regVars, rooms, reqVars, repoVars, pollVars,
                 clientVars>>

\* a join handler that only joins the room, as the second connection
\* handler of the server does
JoinSnapshotMissing(videoId) == <<>>

\* what join-video-room sends to the joining socket
JoinSnapshot(videoId) ==
  IF videoId \in DOMAIN videos
  THEN <<Ev("video-status-update", "direct", videoId, videos[videoId])>>
  ELSE <<>>

NoMsg == Ev("none", "none", 0, [none |-> TRUE])

\* socket.on('join-video-room'): join the room, then send the snapshot.
\* The second connection handler of the server joins the same room again,
\* which changes nothing.
JoinVideoRoom(s, videoId) ==
  /\ s \in connected
  /\ videoId \notin rooms[s]
  /\ Cardinality(rooms[s]) < MaxRooms
  /\ rooms' = [rooms EXCEPT ![s] = @ \cup {videoId}]
  /\ LET sent == JoinSnapshot(videoId)
         first == IF sent = <<>> THEN NoMsg ELSE sent[1]
     IN recv' = IF videoId \in DOMAIN videos
                THEN [recv EXCEPT ![s] =
                        Put(@, videoId, [first |-> first, last |-> first,
                                         globals |-> 0,
                                         base |-> nmut[videoId]])]
                ELSE recv
  /\ UNCHANGED <<apiVars, clock, mode, videos, events, prevPub, nmut, inbox, applied,
                 connected,
                 reqVars, repoVars, pollVars, clientVars>>

\* ------------------------------------------------------------ POST /upload
\* a catch block that only logs the error
CatchOnlyLogs(w, r, msg) == w

\* catch block of processVideo
Catch(w, r, msg) == updateVideoStatus(w, reqId[r], "error", Pct(0), msg)

VideoInfo(r) ==
  [id |-> clock, originalName |-> FileName(r), size |-> FileSize(r),
   status |-> "uploaded", progress |-> Pct(0), timestamp |-> clock]

\* the part of processVideo that runs before its first await
processVideoStart(w, videoInfo) ==
  updateVideoStatus(w, videoInfo.id, "processing", Pct(10), Null)

\* POST /upload without a file, were the record created before the file is tested
UploadNoFileCreatesRecord(r) ==
  /\ pc[r] = "idle"
  /\ \A q \in Reqs : q < r => pc[q] # "idle"
  /\ pc' = [pc EXCEPT ![r] = "done"]
  /\ resp' = [resp EXCEPT ![r] = "400"]
  /\ Commit(notifyNewUpload(World, VideoInfo(r)))
  /\ UNCHANGED <<apiVars, clock, mode, sockVars, reqId, lastPct, processedPath, ncb,
                 uploadedCount, repoVars, pollVars, clientVars,
                 caught>>

UploadNoFile(r) ==
  /\ pc[r] = "idle"
  /\ \A q \in Reqs : q < r => pc[q] # "idle"
  /\ pc' = [pc EXCEPT ![r] = "done"]
  /\ resp' = [resp EXCEPT ![r] = "400"]
  /\ UNCHANGED <<apiVars, clock, mode, regVars, sockVars, reqId, lastPct, processedPath, ncb,
                 uploadedCount, repoVars, pollVars, clientVars,
                 caught>>

Upload(r) ==
  /\ pc[r] = "idle"
  /\ \A q \in Reqs : q < r => pc[q] # "idle"
  /\ reqId' = [reqId EXCEPT ![r] = clock]
  /\ LET created == notifyNewUpload(World, VideoInfo(r))
     IN IF mode = "github"
        THEN /\ Commit(created)
             /\ pc' = [pc EXCEPT ![r] = "ghcommit"]
             /\ resp' = resp
        ELSE /\ Commit(processVideoStart(created, VideoInfo(r)))
             /\ pc' = [pc EXCEPT ![r] = "analyze"]
             /\ resp' = [resp EXCEPT ![r] = "ok-local"]
  /\ UNCHANGED <<apiVars, clock, mode, sockVars, lastPct, processedPath, ncb, uploadedCount,
                 repoVars, pollVars, clientVars,
                 caught>>

\* -------------------------------------------------- GitHub (remote queue) mode
GhCommitOk(r) ==
  /\ pc[r] = "ghcommit"
  /\ repoUploads' = repoUploads \cup {r}
  /\ pc' = [pc EXCEPT ![r] = "ghremove"]
  /\ UNCHANGED <<apiVars, clock, mode, regVars, sockVars, reqId, lastPct, processedPath, ncb,
                 uploadedCount, resp, repoResults, pollVars, clientVars,
                 caught>>

GhCommitFail(r) ==
  /\ pc[r] = "ghcommit"
  /\ \E msg \in Msgs :
       /\ Commit(updateVideoStatus(World, reqId[r], "error", Pct(0), msg))
       /\ caught' = [caught EXCEPT ![r] = msg]
  /\ pc' = [pc EXCEPT ![r] = "done"]
  /\ resp' = [resp EXCEPT ![r] = "500"]
  /\ UNCHANGED <<apiVars, clock, mode, sockVars, reqId, lastPct, processedPath, ncb, uploadedCount,
                 repoVars, pollVars, clientVars>>

\* a handler that reads the mode again after its write to the repository and
\* starts the local pipeline if it finds the mode changed
GhRemoveDoneRereadsMode(r) ==
  /\ pc[r] = "ghremove"
  /\ IF mode = "github"
     THEN /\ Commit(updateVideoStatus(World, reqId[r], "processing", Pct(15),
                                      Null))
          /\ pc' = [pc EXCEPT ![r] = "done"]
          /\ resp' = [resp EXCEPT ![r] = "ok-github"]
     ELSE /\ Commit(updateVideoStatus(World, reqId[r], "processing", Pct(10),
                                      Null))
          /\ pc' = [pc EXCEPT ![r] = "analyze"]
          /\ resp' = [resp EXCEPT ![r] = "ok-local"]
  /\ UNCHANGED <<apiVars, clock, mode, sockVars, reqId, lastPct, processedPath, ncb, uploadedCount,
                 repoVars, pollVars, clientVars,
                 caught>>

\* fs.remove(...).catch(() => {}) returned, whatever its outcome
GhRemoveDone(r) ==
  /\ pc[r] = "ghremove"
  /\ Commit(updateVideoStatus(World, reqId[r], "processing", Pct(15), Null))
  /\ pc' = [pc EXCEPT ![r] = "done"]
  /\ resp' = [resp EXCEPT ![r] = "ok-github"]
  /\ UNCHANGED <<apiVars, clock, mode, sockVars, reqId, lastPct, processedPath, ncb, uploadedCount,
                 repoVars, pollVars, clientVars,
                 caught>>

\* ---------------------------------------------------- local pipeline
\* a delegated operation rejected: control enters the catch block, where
\* the constants declared in the try block are out of scope
StageFail(r, stage) ==
  /\ pc[r] = stage
  /\ \E msg \in Msgs :
       /\ Commit(Catch(World, r, msg))
       /\ caught' = [caught EXCEPT ![r] = msg]
  /\ pc' = [pc EXCEPT ![r] = "errissue"]
  /\ processedPath' = [processedPath EXCEPT ![r] = "none"]
  /\ UNCHANGED <<apiVars, clock, mode, sockVars, reqId, lastPct, ncb, uploadedCount,
                 resp, repoVars, pollVars, clientVars>>

\* a delegated operation resolved and the checkpoint after it is written
Checkpoint(r, stage, progress, next) ==
  /\ pc[r] = stage
  /\ Commit(updateVideoStatus(World, reqId[r], "processing", progress, Null))
  /\ pc' = [pc EXCEPT ![r] = next]
  /\ UNCHANGED <<apiVars, clock, mode, sockVars, reqId, lastPct, processedPath, ncb, uploadedCount,
                 resp, repoVars, pollVars, clientVars,
                 caught>>

\* an analysis after which the transform is skipped
AnalyzeSkipsTransform(r) == Checkpoint(r, "analyze", Pct(20), "thumbnail")

AnalyzeOk(r) == Checkpoint(r, "analyze", Pct(20), "transform")
AnalyzeFail(r) == StageFail(r, "analyze")

\* a transform callback that adds the stage-local percentage unscaled
TransformAdjustedUnscaled(progress) == Pct(20) + Pct(progress)

\* 20 + (progress * 0.4), in tenths
TransformAdjusted(progress) == Pct(20) + progress * 4

\* command.on('progress'): progressCallback(progress.percent || 0)
TransformProgress(r) ==
  /\ pc[r] = "transform"
  /\ ncb[r] < MaxCallbacks
  /\ \E p \in Pcts :
       /\ p >= lastPct[r]
       /\ lastPct' = [lastPct EXCEPT ![r] = p]
       /\ Commit(updateVideoStatus(World, reqId[r], "processing",
                                   TransformAdjusted(p), Null))
  /\ ncb' = [ncb EXCEPT ![r] = @ + 1]
  /\ UNCHANGED <<apiVars, clock, mode, sockVars, pc, reqId, processedPath,
                 uploadedCount, resp, repoVars, pollVars, clientVars,
                 caught>>

\* what VideoProcessor.processVideo resolves with: the path of the output
\* file, or the list of the paths of its parts when the output file exceeds
\* maxVideoSize
Outputs == {"file", "parts"}

\* the transform resolved and the checkpoint after it is written
TransformOk(r) ==
  /\ pc[r] = "transform"
  /\ \E out \in Outputs : processedPath' = [processedPath EXCEPT ![r] = out]
  /\ Commit(updateVideoStatus(World, reqId[r], "processing", Pct(60), Null))
  /\ pc' = [pc EXCEPT ![r] = "thumbnail"]
  /\ UNCHANGED <<apiVars, clock, mode, sockVars, reqId, lastPct, ncb, uploadedCount,
                 resp, repoVars, pollVars, clientVars,
                 caught>>

TransformFail(r) == StageFail(r, "transform")

ThumbnailOk(r) == Checkpoint(r, "thumbnail", Pct(70), "upload")
ThumbnailFail(r) == StageFail(r, "thumbnail")

totalFiles == 2   \* uploadFiles is given the video and the thumbnail

\* 70 + (progress * 0.25) with progress = (uploadedCount / totalFiles) * 100
UploadAdjusted(count) == Pct(70) + (count * 250) \div totalFiles

\* one file of uploadFiles was uploaded; after the last one uploadFiles
\* returns and processVideo records the completion.  uploadFiles passes
\* processedPath to uploadFile as the path of the video, and
\* path.basename throws for a path that is a list, so that only the path of
\* one file can be uploaded
UploadFileOk(r) ==
  /\ pc[r] = "upload"
  /\ processedPath[r] = "file"
  /\ uploadedCount[r] < totalFiles
  /\ uploadedCount' = [uploadedCount EXCEPT ![r] = @ + 1]
  /\ LET reported == updateVideoStatus(World, reqId[r], "processing",
                                       UploadAdjusted(uploadedCount[r] + 1), Null)
     IN IF uploadedCount[r] + 1 = totalFiles
        THEN /\ Commit(updateVideoStatus(reported, reqId[r], "completed",
                                         Pct(100), Null))
             /\ pc' = [pc EXCEPT ![r] = "issue"]
        ELSE /\ Commit(reported)
             /\ pc' = pc
  /\ UNCHANGED <<apiVars, clock, mode, sockVars, reqId, lastPct, processedPath, ncb, resp, repoVars,
                 pollVars, clientVars,
                 caught>>

UploadFail(r) == StageFail(r, "upload")

\* a side effect whose failure reaches the catch block of processVideo
SideEffectRethrows(r, stage, next) == StageFail(r, stage)

\* a best-effort side effect returned or threw; its catch only logs
SideEffectDone(r, stage, next) ==
  /\ pc[r] = stage
  /\ pc' = [pc EXCEPT ![r] = next]
  /\ UNCHANGED <<apiVars, clock, mode, regVars, sockVars, reqId, lastPct, processedPath, ncb,
                 uploadedCount, resp, repoVars, pollVars, clientVars,
                 caught>>

IssueDone(r) == SideEffectDone(r, "issue", "commit")
CommitResultsDone(r) == SideEffectDone(r, "commit", "cleanup")

\* await fs.remove(videoInfo.path) is inside the try block
CleanupOk(r) == SideEffectDone(r, "cleanup", "done")
CleanupFail(r) == StageFail(r, "cleanup")

ErrorIssueDone(r) == SideEffectDone(r, "errissue", "done")

\* -------------------------------------------------- the remote worker
\* results files the GitHub Action may commit
Results ==
  {[videoUrl |-> "v.mp4", thumbnailUrl |-> "t.jpg", videoParts |-> <<>>],
   [videoUrl |-> "p1.mp4", thumbnailUrl |-> "t.jpg",
    videoParts |-> <<"p1.mp4", "p2.mp4">>],
   [videoUrl |-> "v.mp4", thumbnailUrl |-> "t.jpg"]}

WorkerCommitsResult(r) ==
  /\ r \in repoUploads
  /\ reqId[r] \notin DOMAIN repoResults
  /\ \E res \in Results : repoResults' = Put(repoResults, reqId[r], res)
  /\ UNCHANGED <<apiVars, clock, mode, regVars, sockVars, reqVars, repoUploads,
                 pollVars, clientVars>>

\* ------------------------------------------------------ public/app.js
\* the page is loaded: its socket connects and is sent the whole registry
BrowserConnect ==
  /\ ~browserOn
  /\ browserOn' = TRUE
  /\ inbox' = Append(inbox, Ev("videos-status", "direct", 0, [list |-> videos]))
  /\ UNCHANGED <<apiVars, clock, mode, videos, events, prevPub, nmut, recv, applied,
                 sockVars,
                 reqVars, repoVars, pollVars, cvideos>>

\* The connection drops and socket.io, with its default options, connects
\* again: what was on its way is lost and the connection handler sends the
\* whole registry once more.
BrowserReconnect ==
  /\ browserOn
  /\ inbox' = <<Ev("videos-status", "direct", 0, [list |-> videos])>>
  /\ UNCHANGED <<apiVars, clock, mode, videos, events, prevPub, nmut, recv, applied,
                 sockVars,
                 reqVars, repoVars, pollVars, clientVars>>

\* the socket handlers of initializeSocketEvents
\* addVideo and updateVideo store the record they are sent under its id; the
\* page registers no handler for video-removed and videos-cleared, and its
\* system-stats handler only updates the counters shown
ClientHandle(cv, e) ==
  CASE e.ev = "videos-status" -> e.rec.list
    [] e.ev \in {"new-video-upload", "video-status-update", "video-completed"}
         -> Put(cv, e.id, e.rec)
    [] OTHER -> cv

ClientRecv ==
  /\ browserOn
  /\ inbox # <<>>
  /\ cvideos' = ClientHandle(cvideos, Head(inbox))
  /\ inbox' = Tail(inbox)
  /\ UNCHANGED <<apiVars, clock, mode, videos, events, prevPub, nmut, recv, applied,
                 sockVars,
                 reqVars, repoVars, pollVars, browserOn>>

Get(rec, field) == IF Has(rec, field) THEN rec[field] ELSE Undefined
\* a || b on strings
Or(a, b) == IF a \notin {Undefined, Null, ""} THEN a ELSE b

\* uploadFile: the response reports success in github mode
StartPolling(r) ==
  /\ browserOn
  /\ resp[r] = "ok-github"
  /\ pollId = 0
  /\ pollId' = reqId[r]
  /\ attempts' = 0
  /\ intervalOn' = TRUE
  /\ UNCHANGED <<apiVars, clock, mode, regVars, sockVars, reqVars, repoVars, inflight,
                 reconciled, timeouts, clientVars>>

NoData == [none |-> TRUE]

\* poll requests under way, counted by how far they got: the callbacks
\* share attempts and videoId and carry nothing of their own
Outcomes == {"ok", "notfound", "neterr"}
InFlight == inflight.pending + inflight.ok + inflight.notfound + inflight.neterr

\* the interval fires, pollIntervalMs after it did last: attempts++ and the
\* fetch is issued
PollTick ==
  /\ intervalOn
  /\ InFlight < MaxInFlight
  /\ clock' = IF clock < MaxClock THEN clock + 1 ELSE clock
  /\ attempts' = attempts + 1
  /\ inflight' = [inflight EXCEPT !.pending = @ + 1]
  /\ UNCHANGED <<apiVars, mode, regVars, sockVars, reqVars, repoVars, pollId,
                 intervalOn, reconciled, timeouts, clientVars>>

\* GitHubService.tryGetResultsById
tryGetResultsById(videoId) ==
  IF videoId \in DOMAIN repoResults THEN repoResults[videoId] ELSE NoData

\* GET /results/:videoId, were it to record the outcome in the Registry
ServeResultsMarksCompleted ==
  /\ inflight.pending > 0
  /\ LET result == tryGetResultsById(pollId)
         outcome == IF result = NoData THEN "notfound" ELSE "ok"
     IN /\ inflight' = [inflight EXCEPT !.pending = @ - 1, ![outcome] = @ + 1]
        /\ IF outcome = "ok"
           THEN Commit(updateVideoStatus(World, pollId, "completed", Pct(100), Null))
           ELSE UNCHANGED regVars
  /\ UNCHANGED <<apiVars, clock, mode, sockVars, reqVars, repoVars, pollId,
                 attempts, intervalOn, reconciled, timeouts, clientVars>>

\* GET /results/:videoId: 200 with the results file, or 404
ServeResults ==
  /\ inflight.pending > 0
  /\ LET result == tryGetResultsById(pollId)
         outcome == IF result = NoData THEN "notfound" ELSE "ok"
     IN inflight' = [inflight EXCEPT !.pending = @ - 1, ![outcome] = @ + 1]
  /\ UNCHANGED <<apiVars, clock, mode, regVars, sockVars, reqVars, repoVars, pollId,
                 attempts, intervalOn, reconciled, timeouts, clientVars>>

\* the fetch rejects
FetchFails ==
  /\ inflight.pending > 0
  /\ inflight' = [inflight EXCEPT !.pending = @ - 1, !.neterr = @ + 1]
  /\ UNCHANGED <<apiVars, clock, mode, regVars, sockVars, reqVars, repoVars, pollId,
                 attempts, intervalOn, reconciled, timeouts, clientVars>>

\* the record the poller stores for videoId when it read data
Reconcile(cv, videoId, data) ==
  LET existing == IF videoId \in DOMAIN cv THEN cv[videoId] ELSE [id |-> videoId]
  IN Merge(existing,
       [status |-> "completed",
        progress |-> Pct(100),
        processedVideoUrl |-> Or(Get(data, "videoUrl"),
                                 Get(existing, "processedVideoUrl")),
        thumbnailUrl |-> Or(Get(data, "thumbnailUrl"),
                            Get(existing, "thumbnailUrl")),
        videoParts |-> IF Has(data, "videoParts") THEN data.videoParts
                       ELSE IF Has(existing, "videoParts")
                            THEN existing.videoParts ELSE <<>>])

\* the rest of the interval callback, after its fetch settled with outcome;
\* a results file is written once, so the data of a 200 is the file
PollReturn(outcome) ==
  /\ inflight[outcome] > 0
  /\ inflight' = [inflight EXCEPT ![outcome] = @ - 1]
  /\ IF outcome = "ok"
     THEN /\ cvideos' = Put(cvideos, pollId,
                            Reconcile(cvideos, pollId, repoResults[pollId]))
          /\ reconciled' = reconciled + 1
     ELSE UNCHANGED <<cvideos, reconciled>>
  /\ timeouts' = IF attempts >= maxAttempts THEN timeouts + 1 ELSE timeouts
  /\ intervalOn' = IF outcome = "ok" \/ attempts >= maxAttempts
                   THEN FALSE ELSE intervalOn
  /\ UNCHANGED <<apiVars, clock, mode, regVars, sockVars, reqVars, repoVars, pollId,
                 attempts, browserOn>>

\* ------------------------------------------- calls on the Registry
\* The methods of WebSocketManager called in any order, as a caller other
\* than the upload handler may call them.
getVideoStatus(videoId) ==
  IF videoId \in DOMAIN videos THEN videos[videoId] ELSE NoRecord

\* status, progress and error arguments of updateVideoStatus
StatusArgs ==
  {<<"processing", Pct(50), Null>>, <<"completed", Pct(100), Null>>,
   <<"error", Pct(0), "codec error">>, <<"error", Pct(0), "">>}

ApiNotifyNewUpload(r) ==
  /\ ncalls < MaxCalls
  /\ Commit(notifyNewUpload(World, VideoInfo(r)))
  /\ call' = [op |-> "notifyNewUpload", id |-> clock,
              known |-> clock \in DOMAIN videos]
  /\ ncalls' = ncalls + 1
  /\ UNCHANGED <<clock, mode, sockVars, reqVars, repoVars, pollVars,
                 clientVars, ret>>

ApiUpdateVideoStatus(videoId, a) ==
  /\ ncalls < MaxCalls
  /\ Commit(updateVideoStatus(World, videoId, a[1], a[2], a[3]))
  /\ call' = [op |-> "updateVideoStatus", id |-> videoId,
              known |-> videoId \in DOMAIN videos]
  /\ ncalls' = ncalls + 1
  /\ UNCHANGED <<clock, mode, sockVars, reqVars, repoVars, pollVars,
                 clientVars, ret>>

ApiUpdateVideoResults(videoId, results) ==
  /\ ncalls < MaxCalls
  /\ Commit(updateVideoResults(World, videoId, results))
  /\ call' = [op |-> "updateVideoResults", id |-> videoId,
              known |-> videoId \in DOMAIN videos, results |-> results]
  /\ ncalls' = ncalls + 1
  /\ UNCHANGED <<clock, mode, sockVars, reqVars, repoVars, pollVars,
                 clientVars, ret>>

ApiGetVideoStatus(videoId) ==
  /\ ncalls < MaxCalls
  /\ ret' = getVideoStatus(videoId)
  /\ call' = [op |-> "getVideoStatus", id |-> videoId,
              known |-> videoId \in DOMAIN videos, prev |-> call]
  /\ ncalls' = ncalls + 1
  /\ UNCHANGED <<clock, mode, regVars, sockVars, reqVars, repoVars, pollVars,
                 clientVars>>

ApiRemoveVideo(videoId) ==
  /\ ncalls < MaxCalls
  /\ Commit(removeVideo(World, videoId))
  /\ call' = [op |-> "removeVideo", id |-> videoId,
              known |-> videoId \in DOMAIN videos]
  /\ ncalls' = ncalls + 1
  /\ UNCHANGED <<clock, mode, sockVars, reqVars, repoVars, pollVars,
                 clientVars, ret>>

ApiClearCompletedVideos ==
  /\ ncalls < MaxCalls
  /\ Commit(clearCompletedVideos(World))
  /\ call' = [op |-> "clearCompletedVideos", id |-> 0, known |-> FALSE]
  /\ ncalls' = ncalls + 1
  /\ UNCHANGED <<clock, mode, sockVars, reqVars, repoVars, pollVars,
                 clientVars, ret>>

\* the statuses the server and the page use
Statuses == {"uploaded", "processing", "completed", "error"}

ApiGetAllVideos ==
  /\ ncalls < MaxCalls
  /\ ret' = [list |-> videos]
  /\ call' = [op |-> "getAllVideos", id |-> 0, known |-> FALSE]
  /\ ncalls' = ncalls + 1
  /\ UNCHANGED <<clock, mode, regVars, sockVars, reqVars, repoVars, pollVars,
                 clientVars>>

ApiGetVideosByStatus(status) ==
  /\ ncalls < MaxCalls
  /\ ret' = [ids |-> getVideosByStatus(videos, status)]
  /\ call' = [op |-> "getVideosByStatus", id |-> 0, known |-> FALSE]
  /\ ncalls' = ncalls + 1
  /\ UNCHANGED <<clock, mode, regVars, sockVars, reqVars, repoVars, pollVars,
                 clientVars>>

ApiGetSystemStats ==
  /\ ncalls < MaxCalls
  /\ ret' = getSystemStats(videos)
  /\ call' = [op |-> "getSystemStats", id |-> 0, known |-> FALSE]
  /\ ncalls' = ncalls + 1
  /\ UNCHANGED <<clock, mode, regVars, sockVars, reqVars, repoVars, pollVars,
                 clientVars>>

\* ------------------------------------------------------------------ Spec
Server(R) ==
  \/ \E r \in R : UploadNoFile(r)
  \/ \E r \in R : Upload(r)
  \/ \E r \in R : GhCommitOk(r)
  \/ \E r \in R : GhCommitFail(r)
  \/ \E r \in R : GhRemoveDone(r)
  \/ \E r \in R : AnalyzeOk(r)
  \/ \E r \in R : AnalyzeFail(r)
  \/ \E r \in R : TransformProgress(r)
  \/ \E r \in R : TransformOk(r)
  \/ \E r \in R : TransformFail(r)
  \/ \E r \in R : ThumbnailOk(r)
  \/ \E r \in R : ThumbnailFail(r)
  \/ \E r \in R : UploadFileOk(r)
  \/ \E r \in R : UploadFail(r)
  \/ \E r \in R : IssueDone(r)
  \/ \E r \in R : CommitResultsDone(r)
  \/ \E r \in R : CleanupOk(r)
  \/ \E r \in R : CleanupFail(r)
  \/ \E r \in R : ErrorIssueDone(r)

\* the server under concurrent upload requests
Next ==
  \/ Tick
  \/ Server(Reqs)

Spec == Init /\ [][Next]_vars

\* the server together with observers that connect and join video rooms
NextSub ==
  \/ Tick
  \/ Server(SubReqs)
  \/ \E s \in Sockets : Connect(s)
  \/ \E s \in Sockets, id \in Ids : JoinVideoRoom(s, id)

SpecSub == Init /\ [][NextSub]_vars

\* the server, the remote worker and one page that uploads and polls
NextPoll ==
  \/ Server(PollReqs)
  \/ \E r \in PollReqs : WorkerCommitsResult(r)
  \/ BrowserConnect
  \/ ClientRecv
  \/ \E r \in PollReqs : StartPolling(r)
  \/ PollTick
  \/ ServeResults
  \/ FetchFails
  \/ \E outcome \in Outcomes : PollReturn(outcome)

SpecPoll == Init /\ [][NextPoll]_vars

\* the server under the upload requests of one page
NextServe ==
  \/ Tick
  \/ Server(SubReqs)

SpecServe == Init /\ [][NextServe]_vars

\* the same, given that Node runs every handler and continuation that is
\* ready
SpecServeFair == SpecServe /\ WF_vars(NextServe)

\* one upload, given that every delegated operation returns or fails and
\* Node runs the continuation that was waiting for it
NextJob ==
  \/ Tick
  \/ Server(PollReqs)

SpecJobFair == Init /\ [][NextJob]_vars /\ WF_vars(Server(PollReqs))

\* the Registry under calls made in any order
NextApi ==
  \/ Tick
  \/ \E r \in PollReqs : ApiNotifyNewUpload(r)
  \/ \E id \in Ids, a \in StatusArgs : ApiUpdateVideoStatus(id, a)
  \/ \E id \in Ids, res \in Results : ApiUpdateVideoResults(id, res)
  \/ \E id \in Ids : ApiGetVideoStatus(id)

SpecApi == Init /\ [][NextApi]_vars

\* the Registry under calls of all its methods, made in any order
NextRegistry ==
  \/ NextApi
  \/ \E id \in Ids : ApiRemoveVideo(id)
  \/ ApiClearCompletedVideos
  \/ ApiGetAllVideos
  \/ \E status \in Statuses : ApiGetVideosByStatus(status)
  \/ ApiGetSystemStats

SpecRegistry == Init /\ [][NextRegistry]_vars

\* the server, the remote worker and one page that uploads and polls, while
\* the configured mode changes
NextDispatch ==
  \/ Tick
  \/ \E m \in Modes : SetMode(m)
  \/ Server(PollReqs)
  \/ \E r \in PollReqs : WorkerCommitsResult(r)
  \/ BrowserConnect
  \/ ClientRecv
  \/ \E r \in PollReqs : StartPolling(r)
  \/ PollTick
  \/ ServeResults
  \/ FetchFails
  \/ \E outcome \in Outcomes : PollReturn(outcome)

SpecDispatch == Init /\ [][NextDispatch]_vars

\* the server, the remote worker and one page that uploads and polls, while
\* the page's connection may drop and come back
NextReconnect ==
  \/ NextPoll
  \/ BrowserReconnect

SpecReconnect == Init /\ [][NextReconnect]_vars

\* a call made on the Registry from outside the upload handler
OutsideCall ==
  \/ \E id \in Ids, a \in StatusArgs : ApiUpdateVideoStatus(id, a)
  \/ \E id \in Ids, res \in Results : ApiUpdateVideoResults(id, res)
  \/ \E id \in Ids : ApiGetVideoStatus(id)
  \/ \E id \in Ids : ApiRemoveVideo(id)
  \/ ApiClearCompletedVideos

\* the server under one upload while the Registry is also called from outside
NextShared ==
  \/ Tick
  \/ Server(PollReqs)
  \/ ncalls < MaxOutside /\ OutsideCall

SpecShared == Init /\ [][NextShared]_vars

\* the server under one upload and calls made on the Registry from outside,
\* watched by one page
NextPage ==
  \/ NextShared
  \/ BrowserConnect
  \/ BrowserReconnect
  \/ ClientRecv

SpecPage == Init /\ [][NextPage]_vars

TypeOK == \A id \in DOMAIN videos : videos[id].id = id

\* ================================================================ claims
Terminal == {"completed", "error"}

\* requests that were given the id
Owners(id) == {r \in Reqs : reqId[r] = id}
\* the id belongs to one job only
SoleOwner(id) == Cardinality(Owners(id)) = 1

HasResult(rec) ==
  /\ Has(rec, "processedVideoUrl")
  /\ Has(rec, "thumbnailUrl")
  /\ Has(rec, "videoParts")

\* C1: once the status of a job is completed or error, no later step changes
\* it.  Stated for the jobs that share their id with no other job, so that
\* an overwrite by a second create of the same id (C6) is not what is found.
C1_TerminalStatusFinal ==
  [][\A id \in DOMAIN videos :
       (videos[id].status \in Terminal /\ SoleOwner(id)')
         => videos'[id].status = videos[id].status]_vars

\* the records of the update events emitted for id, the last one emitted
\* before the latest handler first
PubSeq(id) ==
  (IF id \in DOMAIN prevPub THEN <<prevPub[id]>> ELSE <<>>)
    \o [i \in 1..Len(Updates(id, events)) |-> Updates(id, events)[i].rec]

\* C2: of two successive update events of a job that both carry status
\* processing, the later one carries a progress that is not smaller, as long
\* as the percentages reported to the job lie in [0,100].
C2_ProgressNonDecreasing ==
  \A id \in Ids :
    (\A r \in Owners(id) : lastPct[r] \in 0..100)
      => \A i \in 1..(Len(PubSeq(id)) - 1) :
           (PubSeq(id)[i].status = "processing"
              /\ PubSeq(id)[i + 1].status = "processing")
             => PubSeq(id)[i + 1].progress >= PubSeq(id)[i].progress

\* C3: a record with status completed has a result attached and progress 100.
C3_CompletedHasResult ==
  \A id \in DOMAIN videos :
    videos[id].status = "completed"
      => HasResult(videos[id]) /\ videos[id].progress = Pct(100)

\* C4: once the poller has read a result, the Registry record of
\* the job is completed, at progress 100, with that result.
C4_RegistryCompletedAfterPoll ==
  reconciled > 0
    => /\ pollId \in DOMAIN videos
       /\ videos[pollId].status = "completed"
       /\ videos[pollId].progress = Pct(100)
       /\ HasResult(videos[pollId])

\* C5: when the catch block of a job moves it to error, the progress of the
\* record stays what it was and the error of the record is the caught message.
C5_ErrorKeepsProgress ==
  [][\A r \in Reqs :
       (caught[r] = Null /\ caught'[r] # Null /\ mode = "local")
         => /\ videos'[reqId[r]].status = "error"
            /\ videos'[reqId[r]].progress = videos[reqId[r]].progress
            /\ Get(videos'[reqId[r]], "error") = caught'[r]]_vars

\* C6: a create for an id that is present leaves the record of that id as
\* it is.
C6_CreateKeepsExisting ==
  [][\A r \in Reqs :
       (pc[r] = "idle" /\ pc'[r] # "idle" /\ resp'[r] # "400"
          /\ reqId'[r] \in DOMAIN videos)
         => videos'[reqId'[r]] = videos[reqId'[r]]]_vars

\* C7: an observer that joined the room of an existing job was sent, first,
\* a snapshot of the job; it was sent every event emitted for the job on the
\* global topic since; and the last thing it was sent is the record the
\* Registry holds now.
C7_SnapshotThenUpdates ==
  \A s \in Sockets :
    \A id \in DOMAIN recv[s] :
      /\ recv[s][id].first.ev = "video-status-update"
      /\ recv[s][id].first.chan = "direct"
      /\ recv[s][id].first.id = id
      /\ recv[s][id].globals = nmut[id] - recv[s][id].base
      /\ recv[s][id].last.rec = videos[id]

\* an observer joined while the job was processing and was sent at least two
\* later events of it
C7_Witness ==
  \E s \in Sockets :
    \E id \in DOMAIN recv[s] :
      /\ recv[s][id].first.rec.status = "processing"
      /\ recv[s][id].globals >= 2
      /\ recv[s][id].last.rec.status \in Terminal

\* C8: when the poller has surfaced a timeout and no attempt succeeded, it
\* has issued exactly maxAttempts read attempts and has stopped, and the job
\* is marked error neither in the browser nor in the Registry.
C8_ExactlyMaxAttempts ==
  (timeouts > 0 /\ reconciled = 0 /\ inflight.ok = 0)
    => /\ attempts = maxAttempts
       /\ ~intervalOn
       /\ pollId \in DOMAIN cvideos => cvideos[pollId].status # "error"
       /\ pollId \in DOMAIN videos => videos[pollId].status # "error"

\* C9: a request whose write to the repository failed was answered with a
\* failure, and the record of its job is not processing.
C9_FailedWriteNeverProcessing ==
  \A r \in Reqs :
    (mode = "github" /\ caught[r] # Null)
      => /\ resp[r] = "500"
         /\ videos[reqId[r]].status # "processing"

\* C10: every change of the status of a job is uploaded -> processing,
\* processing -> completed or processing -> error.  Stated for the jobs that
\* share their id with no other job.
C10_TransitionsFollowMachine ==
  [][\A id \in DOMAIN videos :
       (SoleOwner(id)' /\ videos'[id].status # videos[id].status)
         => <<videos[id].status, videos'[id].status>> \in
              {<<"uploaded", "processing">>, <<"processing", "completed">>,
               <<"processing", "error">>}]_vars

\* C11: a getVideoStatus that directly follows an updateVideoResults of a
\* known id returns a record that is completed, at progress 100, with the
\* URLs and parts of the given result.
C11_ResultsThenStatus ==
  [][(/\ call'.op = "getVideoStatus"
      /\ ncalls' > ncalls
      /\ call.op = "updateVideoResults"
      /\ call.known
      /\ call'.id = call.id)
       => /\ ret' # NoRecord
          /\ ret'.status = "completed"
          /\ ret'.progress = Pct(100)
          /\ ret'.processedVideoUrl = call.results.videoUrl
          /\ ret'.thumbnailUrl = call.results.thumbnailUrl
          /\ ret'.videoParts = IF Has(call.results, "videoParts")
                               THEN call.results.videoParts ELSE <<>>]_vars

\* a status read that followed a results update of a job that was processing
C11_Witness ==
  /\ call.op = "getVideoStatus"
  /\ call.prev.op = "updateVideoResults"
  /\ call.prev.known
  /\ call.prev.id = call.id
  /\ ret # NoRecord
  /\ Get(ret, "status") = "completed"
  /\ Has(ret, "lastUpdate")

\* C12: a record with status error carries an error message.
C12_ErrorHasMessage ==
  \A id \in DOMAIN videos :
    videos[id].status = "error" => Has(videos[id], "error")

\* C13: an updateVideoStatus or updateVideoResults for an id that is not in
\* the Registry changes no record, creates none and publishes nothing.
C13_UnknownIdNoOp ==
  [][(/\ ncalls' > ncalls
      /\ call'.op \in {"updateVideoStatus", "updateVideoResults"}
      /\ ~call'.known)
       => /\ videos' = videos
          /\ call'.id \notin DOMAIN videos'
          /\ events' = <<>>
          /\ applied' = <<>>
          /\ nmut' = nmut
          /\ inbox' = inbox
          /\ recv' = recv]_vars

\* an update was called for an id the Registry does not hold while it holds
\* another job
C13_Witness ==
  /\ call.op \in {"updateVideoStatus", "updateVideoResults"}
  /\ ~call.known
  /\ call.id \notin DOMAIN videos
  /\ DOMAIN videos # {}

\* the creation events among the messages out
Creations(videoId, out) ==
  SelectSeq(out, LAMBDA e: e.id = videoId /\ e.ev = "new-video-upload")

\* C14: the handler that creates a job stores a record with status uploaded
\* and progress 0, publishes exactly one creation event, which carries that
\* record, and no update event of the job was published before it.
C14_CreateThenUpdates ==
  [][\A r \in Reqs :
       (pc[r] = "idle" /\ pc'[r] # "idle" /\ resp'[r] # "400")
         => /\ applied'[1].status = "uploaded"
            /\ applied'[1].progress = Pct(0)
            /\ applied'[1].id = reqId'[r]
            /\ Len(Creations(reqId'[r], events')) = 1
            /\ events'[1].ev = "new-video-upload"
            /\ events'[1].rec = applied'[1]
            /\ \A id \in Ids : id = reqId'[r] => PubSeq(id) = <<>>]_vars

\* the overall progress, in tenths, that the stage-local percentage p maps to
\* in the range from rangeStart to rangeEnd
StageProgress(rangeStart, rangeEnd, p) ==
  Pct(rangeStart) + (p * (Pct(rangeEnd) - Pct(rangeStart))) \div 100

\* the stage-local percentage uploadFiles reports after count files
UploadPercent(count) == (count * 100) \div totalFiles

\* C15: the progress computed for the transform stage lies in [20,60] and
\* that for the upload stage in [70,95], both equal
\* rangeStart + p*(rangeEnd-rangeStart)/100 and grow with p, and that is the
\* progress the callbacks publish.
C15_StageProgressInRange ==
  [][\A r \in Reqs :
       /\ ncb'[r] > ncb[r]
            => /\ \A p \in 0..100 :
                    /\ TransformAdjusted(p) \in Pct(20)..Pct(60)
                    /\ TransformAdjusted(p) = StageProgress(20, 60, p)
                    /\ p < 100 => TransformAdjusted(p) <= TransformAdjusted(p + 1)
               /\ events'[1].rec.progress = StageProgress(20, 60, lastPct'[r])
       /\ uploadedCount'[r] > uploadedCount[r]
            => /\ \A c \in 0..totalFiles :
                    /\ UploadAdjusted(c) \in Pct(70)..Pct(95)
                    /\ UploadAdjusted(c) = StageProgress(70, 95, UploadPercent(c))
                    /\ c < totalFiles => UploadAdjusted(c) <= UploadAdjusted(c + 1)
               /\ events'[1].rec.progress
                    = StageProgress(70, 95, UploadPercent(uploadedCount'[r]))]_vars

\* the transform reported 50 % and the record of the job is at 40 %
C15_Witness ==
  \E r \in Reqs :
    /\ pc[r] = "transform"
    /\ ncb[r] > 0
    /\ lastPct[r] = 50
    /\ reqId[r] \in DOMAIN videos
    /\ videos[reqId[r]].progress = Pct(40)

\* C16: when a job becomes completed, a video-completed event is published
\* to the room of the job and to the global topic.
C16_CompletedEventPublished ==
  [][\A id \in DOMAIN videos' :
       (/\ videos'[id].status = "completed"
        /\ (id \in DOMAIN videos => videos[id].status # "completed"))
         => /\ \E i \in 1..Len(events') :
                 /\ events'[i].ev = "video-completed"
                 /\ events'[i].chan = "room"
                 /\ events'[i].id = id
            /\ \E i \in 1..Len(events') :
                 /\ events'[i].ev = "video-completed"
                 /\ events'[i].chan = "global"
                 /\ events'[i].id = id]_vars

\* the messages of the last handler that are not creation events
UpdateEvents == SelectSeq(events, LAMBDA e: e.ev # "new-video-upload")
\* the records the last handler stored by an update (a created record has
\* neither stamp)
UpdateMuts ==
  SelectSeq(applied, LAMBDA rec: Has(rec, "lastUpdate") \/ Has(rec, "completedAt"))

\* C17: for every record an update stored, an update event carrying that
\* record was emitted to the room named after the id of the record and then
\* to the global topic, and no event is emitted to the room of another id.
C17_UpdateToRoomAndGlobal ==
  /\ Len(UpdateEvents) = 2 * Len(UpdateMuts)
  /\ \A k \in 1..Len(UpdateMuts) :
       LET toRoom == UpdateEvents[2 * k - 1]
           toAll == UpdateEvents[2 * k]
       IN /\ toRoom.chan = "room"
          /\ toRoom.id = UpdateMuts[k].id
          /\ toRoom.rec = UpdateMuts[k]
          /\ toAll.chan = "global"
          /\ toAll.rec = UpdateMuts[k]
          /\ toAll.ev = toRoom.ev
          /\ toRoom.ev \in {"video-status-update", "video-completed"}
  /\ \A i \in 1..Len(events) :
       events[i].chan = "room" => events[i].id = events[i].rec.id

\* a job was updated to processing while the Registry holds another job
C17_Witness ==
  /\ Cardinality(DOMAIN videos) >= 2
  /\ \E i \in 1..Len(events) :
       /\ events[i].chan = "room"
       /\ events[i].rec.status = "processing"

\* the records stored for id by the last handler, in order
StoredFor(id) == SelectSeq(applied, LAMBDA rec: rec.id = id)
\* the records of the events it published for id on the global topic, in order
PublishedFor(id) ==
  [i \in 1..Len(OnGlobal(id, events)) |-> OnGlobal(id, events)[i].rec]

\* C18: the events a handler publishes for a job carry, in order, the records
\* it stored for the job: the k-th event carries the k-th mutation.
C18_EventsInMutationOrder ==
  \A id \in Ids : PublishedFor(id) = StoredFor(id)

\* a handler stored two records for a job, the second one completed
C18_Witness ==
  \E id \in Ids :
    /\ Len(StoredFor(id)) = 2
    /\ StoredFor(id)[1].status = "processing"
    /\ StoredFor(id)[2].status = "completed"

\* C19: while the server runs, a stats event is always eventually emitted
\* again.
C19_StatsAlwaysAgain ==
  []<>(\E i \in 1..Len(events) : events[i].ev = "system-stats")

\* C20: a step in which a notification side effect (completion issue, results
\* commit, error issue) ends, failed or not, leaves every record of the
\* Registry as it was and publishes nothing.
C20_SideEffectsLeaveRegistry ==
  [][\A r \in Reqs :
       (pc[r] \in {"issue", "commit", "errissue"} /\ pc'[r] # pc[r])
         => /\ videos' = videos
            /\ events' = events
            /\ nmut' = nmut
            /\ caught'[r] = caught[r]]_vars

\* a job went through its completion issue and its results commit and is
\* still completed at 100
C20_Witness ==
  \E r \in Reqs :
    /\ pc[r] \in {"cleanup", "done"}
    /\ caught[r] = Null
    /\ reqId[r] \in DOMAIN videos
    /\ videos[reqId[r]].status = "completed"
    /\ videos[reqId[r]].progress = Pct(100)

\* the delegated operations of the local pipeline
DelegatedStages == {"analyze", "transform", "thumbnail", "upload"}

\* C21: when a delegated operation of a job fails, the record of the job
\* becomes error with the message of the failure, none of its delegated
\* operations is under way afterwards, and from then on no step makes the
\* record completed.
C21_StageFailureIsFinal ==
  [][\A r \in Reqs :
       /\ (pc[r] \in DelegatedStages /\ caught[r] = Null /\ caught'[r] # Null)
            => /\ videos'[reqId[r]].status = "error"
               /\ Get(videos'[reqId[r]], "error") = caught'[r]
               /\ pc'[r] \notin DelegatedStages
       /\ (caught[r] # Null /\ mode = "local")
            => /\ pc'[r] \notin DelegatedStages
               /\ videos'[reqId[r]].status # "completed"]_vars

\* the calls that take records out of the Registry
Removals == {"removeVideo", "clearCompletedVideos"}

\* C22: a removeVideo of an id the Registry holds deletes that record, leaves
\* the others and publishes exactly one removal event, for that id; a
\* removeVideo of an id it does not hold changes and publishes nothing; and
\* no other step, save clearCompletedVideos, takes a record out of the
\* Registry.
C22_RemovedOnlyOnRequest ==
  [][/\ (ncalls' > ncalls /\ call'.op = "removeVideo" /\ call'.known)
          => /\ DOMAIN videos' = (DOMAIN videos) \ {call'.id}
             /\ \A id \in DOMAIN videos' : videos'[id] = videos[id]
             /\ Len(events') = 1
             /\ events'[1].ev = "video-removed"
             /\ events'[1].id = call'.id
             /\ nmut'[call'.id] = nmut[call'.id] + 1
     /\ (ncalls' > ncalls /\ call'.op = "removeVideo" /\ ~call'.known)
          => /\ videos' = videos
             /\ events' = <<>>
             /\ nmut' = nmut
     /\ (ncalls' = ncalls \/ call'.op \notin Removals)
          => (DOMAIN videos) \subseteq (DOMAIN videos')]_vars

\* the record of a job whose pipeline went through was removed on request
C22_Witness ==
  /\ call.op = "removeVideo"
  /\ call.known
  /\ call.id \notin DOMAIN videos
  /\ \E r \in Reqs :
       /\ reqId[r] = call.id
       /\ pc[r] = "done"
       /\ resp[r] = "ok-local"

\* C23: the poller marks the job completed at most once, and once it has done
\* so its interval is cleared, so that no further read is issued.
C23_ReconciledOnce ==
  /\ reconciled <= 1
  /\ reconciled > 0 => ~intervalOn

\* C24: one poll run does not end both ways: the poller has not both marked
\* the job completed and surfaced a timeout.
C24_OneFinalOutcome == ~(reconciled > 0 /\ timeouts > 0)

\* C25: the step in which the removal of the input file of a completed job
\* ends, failed or not, leaves the record of the job completed at progress 100.
C25_CleanupKeepsCompleted ==
  [][\A r \in Reqs :
       (/\ pc[r] = "cleanup"
        /\ pc'[r] # pc[r]
        /\ videos[reqId[r]].status = "completed")
         => /\ videos'[reqId[r]].status = "completed"
            /\ videos'[reqId[r]].progress = Pct(100)]_vars

\* the positions of processVideo in the order it reaches them, and the
\* progress of the checkpoint written on reaching each
PipelineOrder == <<"analyze", "transform", "thumbnail", "upload", "issue">>
Checkpoints == <<Pct(10), Pct(20), Pct(60), Pct(70), Pct(100)>>

\* C26: a job reaches analyze, transform, thumbnail and upload in that order,
\* each from the one before it and with no failure caught; on reaching them
\* it publishes processing at 10, 20, 60 and 70; it publishes completed at
\* 100 on leaving upload after the last file; and no other step makes a
\* record completed.
C26_StagesInFixedOrder ==
  [][/\ \A r \in Reqs : \A k \in 1..Len(PipelineOrder) :
          (pc'[r] = PipelineOrder[k] /\ pc[r] # pc'[r])
            => /\ pc[r] = (IF k = 1 THEN "idle" ELSE PipelineOrder[k - 1])
               /\ caught[r] = Null
               /\ mode = "local"
               /\ Last(applied').id = reqId'[r]
               /\ Last(applied').progress = Checkpoints[k]
               /\ Last(applied').status
                    = (IF k = Len(PipelineOrder) THEN "completed"
                                                 ELSE "processing")
               /\ Last(events').rec = Last(applied')
     /\ \A id \in DOMAIN videos' :
          (/\ videos'[id].status = "completed"
           /\ (id \in DOMAIN videos => videos[id] # videos'[id]))
            => \E r \in Reqs :
                 /\ reqId[r] = id
                 /\ pc[r] = "upload"
                 /\ pc'[r] = "issue"
                 /\ uploadedCount'[r] = totalFiles]_vars

\* a job went through the four operations, its transform having reported
\* progress, and was marked completed
C26_Witness ==
  \E r \in Reqs :
    /\ pc[r] = "issue"
    /\ ncb[r] > 0
    /\ Last(applied).status = "completed"
    /\ Last(applied).progress = Pct(100)
    /\ videos[reqId[r]] = Last(applied)

\* C27: the progress a transform callback writes lies in [20,60], the
\* progress an upload callback writes lies in [70,95], and the progress of
\* every record lies in [0,100].
C27_ProgressClamped ==
  [][/\ \A r \in Reqs :
          /\ ncb'[r] > ncb[r]
               => applied'[1].progress \in Pct(20)..Pct(60)
          /\ uploadedCount'[r] > uploadedCount[r]
               => applied'[1].progress \in Pct(70)..Pct(95)
     /\ \A id \in DOMAIN videos' :
          videos'[id].progress \in Pct(0)..Pct(100)]_vars

\* C28: the handler of a job marks it processing at 15 in the step in which
\* it answers success in github mode, after the file of the job was written
\* to the repository; that is the only update event published for the job,
\* after its creation event; and no step of the server changes the record or
\* publishes for the job afterwards.
C28_RemoteMarkedOnce ==
  [][\A r \in Reqs :
       /\ (resp[r] # "ok-github" /\ resp'[r] = "ok-github")
            => /\ r \in repoUploads
               /\ Len(Updates(reqId[r], events')) = 1
               /\ Last(applied').id = reqId[r]
               /\ Last(applied').status = "processing"
               /\ Last(applied').progress = Pct(15)
               /\ nmut'[reqId[r]] = 2
       /\ resp[r] = "ok-github"
            => /\ videos'[reqId[r]] = videos[reqId[r]]
               /\ nmut'[reqId[r]] = nmut[reqId[r]]]_vars

\* where the handler of a job on the local pipeline is suspended
LocalPcs == DelegatedStages \cup {"issue", "commit", "cleanup", "errissue"}
\* where the handler of a job handed to the repository is suspended
GithubPcs == {"ghcommit", "ghremove"}

\* the execution strategy the request was given
Strategy(r) ==
  IF pc[r] \in LocalPcs \/ resp[r] = "ok-local" THEN "local"
  ELSE IF pc[r] \in GithubPcs \/ resp[r] \in {"ok-github", "500"} THEN "github"
  ELSE "none"

\* C29: the handler that creates a job gives it the strategy of the mode
\* configured at that step; the strategy of a job never changes afterwards,
\* whatever the mode is changed to, so that a local job is never at a step
\* of the github path and a github job never at a stage of the pipeline; no
\* step of a local job writes the progress 15 of the github path; and the
\* poller is started only for a job handed to the repository.
C29_StrategyBoundAtCreation ==
  [][/\ \A r \in Reqs :
          /\ (pc[r] = "idle" /\ pc'[r] # "idle" /\ resp'[r] # "400")
               => Strategy(r)' = (IF mode = "github" THEN "github" ELSE "local")
          /\ Strategy(r) # "none" => Strategy(r)' = Strategy(r)
          /\ (Strategy(r) = "local" /\ applied' # applied
                /\ (pc'[r] # pc[r] \/ ncb'[r] # ncb[r]
                      \/ uploadedCount'[r] # uploadedCount[r]))
               => \A i \in 1..Len(applied') : applied'[i].progress # Pct(15)
     /\ pollId' # pollId
          => \E r \in Reqs : /\ reqId[r] = pollId'
                             /\ Strategy(r) = "github"]_vars

\* a job that was started on the local pipeline was completed by it after the
\* mode was changed to github
C29_Witness ==
  \E r \in Reqs :
    /\ Strategy(r) = "local"
    /\ mode = "github"
    /\ pc[r] = "issue"
    /\ videos[reqId[r]].status = "completed"
    /\ pollId = 0

\* the fields updateVideoStatus and updateVideoResults assign
UpdateFields ==
  {"status", "progress", "lastUpdate", "error", "processedVideoUrl",
   "thumbnailUrl", "videoParts", "completedAt"}

\* new is old with nothing but fields of an update assigned
Extends(old, new) ==
  /\ (DOMAIN old) \subseteq (DOMAIN new)
  /\ (DOMAIN new) \ (DOMAIN old) \subseteq UpdateFields
  /\ \A f \in (DOMAIN old) \ UpdateFields : new[f] = old[f]

\* a record as notifyNewUpload stores it: it has neither stamp of an update
IsCreation(rec) == ~Has(rec, "lastUpdate") /\ ~Has(rec, "completedAt")

\* C30: whoever the callers are and however their steps interleave, every
\* record an update stores is the record the Registry held for the id just
\* before, with the fields of that update assigned; the record the Registry
\* holds afterwards is the one stored last; a record no call stored to is
\* left as it was; and getVideoStatus returns the record held, whole.
C30_UpdatesAppliedInTurn ==
  [][/\ \A id \in Ids :
          LET S == StoredFor(id)'
          IN /\ S # <<>>
                  => /\ id \in DOMAIN videos'
                     /\ videos'[id] = Last(S)
             /\ (S = <<>> /\ id \in DOMAIN videos /\ id \in DOMAIN videos')
                  => videos'[id] = videos[id]
             /\ (/\ applied' # applied
                 /\ S # <<>>
                 /\ id \in DOMAIN videos
                 /\ ~IsCreation(S[1]))
                  => Extends(videos[id], S[1])
             /\ \A k \in 1..(Len(S) - 1) :
                  ~IsCreation(S[k + 1]) => Extends(S[k], S[k + 1])
     /\ (ncalls' > ncalls /\ call'.op = "getVideoStatus" /\ call'.known)
          => ret' = videos[call'.id]]_vars

\* the pipeline of a job wrote its checkpoint to the record after a caller
\* from outside had stored a result in it
C30_Witness ==
  \E r \in Reqs :
    /\ call.op = "updateVideoResults"
    /\ call.known
    /\ call.id = reqId[r]
    /\ pc[r] = "thumbnail"
    /\ videos[reqId[r]].progress = Pct(60)
    /\ Has(videos[reqId[r]], "completedAt")
    /\ Has(videos[reqId[r]], "originalName")

\* C31: the upload of a job whose transform yielded a list of parts can go
\* on, so that the job can reach completed.
C31_PartsCanBeUploaded ==
  \A r \in Reqs :
    (pc[r] = "upload" /\ processedPath[r] = "parts") => ENABLED UploadFileOk(r)

\* C32: a record that carries an error message has status error, and a record
\* that carries a result URL has status completed.
C32_FieldsMatchStatus ==
  \A id \in DOMAIN videos :
    /\ Has(videos[id], "error") => videos[id].status = "error"
    /\ (Has(videos[id], "processedVideoUrl") \/ Has(videos[id], "thumbnailUrl"))
         => videos[id].status = "completed"

\* C33: a step of the poller (the interval firing, the server answering the
\* results query, the fetch failing, the callback returning, cancelling or
\* timing out) changes neither the Registry nor the results store.
PollStep ==
  \/ inflight' # inflight
  \/ attempts' # attempts
  \/ intervalOn' # intervalOn
  \/ reconciled' # reconciled
  \/ timeouts' # timeouts

C33_PollingIsPure ==
  [][PollStep =>
       /\ videos' = videos
       /\ events' = events
       /\ nmut' = nmut
       /\ repoResults' = repoResults
       /\ repoUploads' = repoUploads]_vars

\* a query for an existing job was answered with its results and the poller
\* cancelled its interval
C33_Witness ==
  /\ pollId \in DOMAIN videos
  /\ pollId \in DOMAIN repoResults
  /\ reconciled > 0
  /\ ~intervalOn

\* C34: a create-job request without a file is answered 400 and that is all:
\* no record is created or changed, no event is emitted, no id is drawn, no
\* file is committed and no pipeline is started for it.
C34_NoFileNoTransition ==
  [][\A r \in Reqs :
       resp'[r] = "400" =>
         /\ pc'[r] = "done"
         /\ reqId'[r] = 0
         /\ r \notin repoUploads'
         /\ resp[r] # "400" =>
              /\ pc[r] = "idle"
              /\ videos' = videos
              /\ events' = events
              /\ nmut' = nmut
              /\ repoUploads' = repoUploads]_vars

C34_Witness ==
  \E r \in Reqs : resp[r] = "400" /\ pc[r] = "done"

\* C35: once the poller has marked the job completed in the page, the page's
\* record of it stays completed and keeps its result URL, whatever events the
\* server sends afterwards.
C35_ClientCompletionSticks ==
  reconciled > 0 =>
    /\ pollId \in DOMAIN cvideos
    /\ cvideos[pollId].status = "completed"
    /\ Has(cvideos[pollId], "processedVideoUrl")
    /\ cvideos[pollId].processedVideoUrl # Undefined

\* C36: when the connected page has handled every event sent to it, it tracks
\* the jobs the Registry holds, each with the Registry's status and progress.
C36_ClientMirrorsRegistry ==
  (browserOn /\ inbox = <<>>) =>
    /\ DOMAIN cvideos = DOMAIN videos
    /\ \A id \in DOMAIN videos :
         /\ cvideos[id].status = videos[id].status
         /\ cvideos[id].progress = videos[id].progress

\* C37: given that every delegated operation returns or fails, a job on the
\* local pipeline leads to processVideo having returned, every failure caught,
\* with the record of the job completed or error.
C37_LocalJobEnds ==
  \A r \in Reqs :
    (pc[r] \in LocalPcs) ~>
      /\ pc[r] = "done"
      /\ reqId[r] \in DOMAIN videos
      /\ videos[reqId[r]].status \in Terminal

\* a local job has ended, one way or the other
C37_Witness ==
  \E r \in Reqs :
    /\ resp[r] = "ok-local"
    /\ pc[r] = "done"
    /\ videos[reqId[r]].status \in Terminal

\* C38: an update of the status or of the results of a job leaves the record
\* of every other job as it was, creates and removes none, and leaves the id,
\* originalName, size and timestamp of the job as they were; a read changes
\* neither the records nor what was emitted.
Updaters == {"updateVideoStatus", "updateVideoResults"}
Readers == {"getVideoStatus", "getAllVideos", "getVideosByStatus", "getSystemStats"}
CreationFields == {"id", "originalName", "size", "timestamp"}

C38_UpdatesAndReadsFramed ==
  [][ncalls' # ncalls =>
       /\ call'.op \in Updaters =>
            /\ DOMAIN videos' = DOMAIN videos
            /\ \A id \in DOMAIN videos :
                 IF id = call'.id
                 THEN \A f \in CreationFields :
                        /\ Has(videos'[id], f)
                        /\ videos'[id][f] = videos[id][f]
                 ELSE videos'[id] = videos[id]
       /\ call'.op \in Readers =>
            /\ videos' = videos
            /\ events' = events
            /\ nmut' = nmut]_vars

\* the record of one of two jobs was updated
C38_Witness ==
  /\ Cardinality(DOMAIN videos) = 2
  /\ call.op \in Updaters
  /\ call.known
  /\ Has(videos[call.id], "lastUpdate") \/ Has(videos[call.id], "completedAt")

\* C39: the stats count every record once: total is the sum of the counts of
\* the four statuses and active the sum of uploaded and processing, each
\* count being the number of records in that status.
CountIn(status) ==
  Cardinality({id \in DOMAIN videos : videos[id].status = status})

StatsAddUp(stats) ==
  /\ stats.total = stats.uploaded + stats.processing + stats.completed + stats.error
  /\ stats.active = stats.uploaded + stats.processing

C39_StatsAddUp ==
  /\ LET stats == getSystemStats(videos)
     IN /\ StatsAddUp(stats)
        /\ \A status \in Statuses : stats[status] = CountIn(status)
        /\ stats.total = Cardinality(DOMAIN videos)
  /\ call.op = "getSystemStats" => StatsAddUp(ret)

\* stats were read of two records in different statuses
C39_Witness ==
  /\ call.op = "getSystemStats"
  /\ ret.total = 2
  /\ ret.completed = 1
  /\ ret.active = 1

====
